---------------------------- MODULE Spec2Model ----------------------------
(***************************************************************************)
(* A model of the three batch jobs of the repository:                      *)
(*   src/ai.digest.py         the Sunday LinkedIn content pack             *)
(*   src/daily_investment.py  the daily investment digest                  *)
(*   src/market_digest.py     the weekly watchlist / market-pulse digest   *)
(*                                                                         *)
(* Text is modelled as a sequence of tokens (a token is a short string     *)
(* standing for one character or one run of characters), timestamps as a   *)
(* number of days, and every remote service (feeds, LLM, email provider)   *)
(* as a nondeterministic choice over the answers it can give.              *)
(*                                                                         *)
(* Spec runs the three jobs end to end. SpecFetch, SpecCurate, SpecRender, *)
(* SpecWatch, SpecQuote and SpecSnapshot run one function of a job on      *)
(* every input of a bounded set.                                           *)
(***************************************************************************)
EXTENDS Integers, Sequences, FiniteSets, TLC

\* ------------------------------------------------------------------------
\* Configuration (ai.digest.py reads these from the environment; the values
\* here are one small configuration, the defaults are in the source)
\* ------------------------------------------------------------------------

LOOKBACK_DAYS == 90

PREFER_RECENT_DAYS == 45

MAX_ENTRIES_PER_FEED == 2

MAX_ARTICLES_TOTAL == 3

MAX_TO_MODEL == 2

\* the values CURATED_COUNT takes: with 3 the backup threshold is its floor
\* of 3, with 9 it is 9 // 2 = 4
CuratedCounts == {3, 9}

\* the configured size of the curated list, read once when the module loads
VARIABLE CURATED_COUNT

\* the literal 260 of the fallback's synopsis truncation
SYNOPSIS_CHARS == 260

\* the clock of the run, in days
Now == 100

\* ------------------------------------------------------------------------
\* Text helpers
\* ------------------------------------------------------------------------

Min(a, b) == IF a < b THEN a ELSE b

Max(a, b) == IF a > b THEN a ELSE b

Take(s, n) == SubSeq(s, 1, Min(Len(s), n))

Drop(s, n) == SubSeq(s, n + 1, Len(s))

\* str.lower() on one token
LowerTok(t) ==
    CASE t = "UTM_" -> "utm_"
      [] t = "A" -> "a"
      [] t = "B" -> "b"
      [] OTHER -> t

\* str.lower()
Lower(s) == [i \in 1..Len(s) |-> LowerTok(s[i])]

RECURSIVE StripLeft(_)
StripLeft(s) == IF s # <<>> /\ Head(s) = " " THEN StripLeft(Tail(s)) ELSE s

RECURSIVE StripRight(_)
StripRight(s) ==
    IF s # <<>> /\ s[Len(s)] = " " THEN StripRight(SubSeq(s, 1, Len(s) - 1)) ELSE s

\* str.strip()
Strip(s) == StripRight(StripLeft(s))

\* index of the first occurrence of token c in s, 0 when there is none
RECURSIVE IndexOfFrom(_, _, _)
IndexOfFrom(s, c, i) ==
    IF i > Len(s) THEN 0
    ELSE IF s[i] = c THEN i
    ELSE IndexOfFrom(s, c, i + 1)

IndexOf(s, c) == IndexOfFrom(s, c, 1)

\* str.split(c): the pieces between the occurrences of c (always at least one)
RECURSIVE Split(_, _)
Split(s, c) ==
    LET i == IndexOf(s, c)
    IN  IF i = 0 THEN <<s>>
        ELSE <<SubSeq(s, 1, i - 1)>> \o Split(Drop(s, i), c)

\* c.join(parts)
RECURSIVE Join(_, _)
Join(parts, c) ==
    IF parts = <<>> THEN <<>>
    ELSE IF Len(parts) = 1 THEN parts[1]
    ELSE parts[1] \o <<c>> \o Join(Tail(parts), c)

\* part.lower().startswith("utm_")
StartsWithUtm(part) == part # <<>> /\ LowerTok(part[1]) = "utm_"

normalize_url(url) ==
    IF url = <<>> THEN <<>>
    ELSE
      LET base == Split(url, "#")[1]
          q    == IndexOf(base, "?")
      IN  IF q # 0
          THEN LET root == SubSeq(base, 1, q - 1)
                   qs   == Drop(base, q)
                   kept_params == SelectSeq(Split(qs, "&"), LAMBDA p : ~StartsWithUtm(p))
               IN  IF kept_params # <<>>
                   THEN root \o <<"?">> \o Join(kept_params, "&")
                   ELSE root
          ELSE base

\* ------------------------------------------------------------------------
\* Feed entries and articles (ai.digest.py)
\* ------------------------------------------------------------------------

\* A feed entry is a record [title, link, published, updated, created,
\* summary, description]. A text field that is absent is the empty text (the
\* code reads it with a default of ""); a date field is a day number, NoDate
\* when absent and BadDate when the date parser raises on it.
NoDate == 0 - 1

BadDate == 0 - 2

\* the first of the three date fields that is present and parses, else "now"
ResolvePublished(entry, now) ==
    LET ok(raw) == raw # NoDate /\ raw # BadDate
    IN  IF ok(entry.published) THEN entry.published
        ELSE IF ok(entry.updated) THEN entry.updated
        ELSE IF ok(entry.created) THEN entry.created
        ELSE now

\* the article's source (feed metadata or the link's host) is carried through
\* unchanged by every stage and is left out of the record
parse_entry(entry, now) ==
    [ title     |-> Strip(entry.title),
      link      |-> Strip(entry.link),
      summary   |-> Strip(IF entry.summary # <<>> THEN entry.summary ELSE entry.description),
      published |-> ResolvePublished(entry, now) ]

\* lines 181-195: parse each entry, drop those older than the cutoff
ParseFeedEntries(entries, now) ==
    LET cutoff == now - LOOKBACK_DAYS
        parsed == [i \in 1..Len(entries) |->
                     LET art == parse_entry(entries[i], now)
                     IN  [ title        |-> art.title,
                           link         |-> art.link,
                           summary      |-> art.summary,
                           published    |-> art.published,
                           published_dt |-> art.published ]]
    IN  SelectSeq(parsed, LAMBDA a : ~(a.published_dt < cutoff))

\* lines 174-195: a response is [ok, entries]; a feed whose request failed
\* contributes nothing
RECURSIVE CollectArticles(_, _)
CollectArticles(responses, now) ==
    IF responses = <<>> THEN <<>>
    ELSE LET r == Head(responses)
         IN  (IF r.ok THEN ParseFeedEntries(Take(r.entries, MAX_ENTRIES_PER_FEED), now)
              ELSE <<>>)
             \o CollectArticles(Tail(responses), now)

\* list.sort(key=published_dt, reverse=True): stable, equal keys keep their order
RECURSIVE InsertByRecency(_, _)
InsertByRecency(sorted, a) ==
    IF sorted = <<>> THEN <<a>>
    ELSE IF Head(sorted).published_dt >= a.published_dt
         THEN <<Head(sorted)>> \o InsertByRecency(Tail(sorted), a)
         ELSE <<a>> \o sorted

RECURSIVE SortByRecencyFrom(_, _)
SortByRecencyFrom(sorted, rest) ==
    IF rest = <<>> THEN sorted
    ELSE SortByRecencyFrom(InsertByRecency(sorted, Head(rest)), Tail(rest))

\* the sort without reverse=True: oldest first
RECURSIVE SortOldestFirst(_)
SortOldestFirst(articles) ==
    IF articles = <<>> THEN <<>>
    ELSE LET m == CHOOSE i \in 1..Len(articles) :
                    \A j \in 1..Len(articles) :
                        \/ articles[i].published_dt < articles[j].published_dt
                        \/ articles[i].published_dt = articles[j].published_dt /\ i <= j
         IN  <<articles[m]>> \o
             SortOldestFirst(SubSeq(articles, 1, m - 1) \o SubSeq(articles, m + 1, Len(articles)))

SortByRecency(articles) == SortByRecencyFrom(<<>>, articles)

\* the uniqueness key of an article
DedupKey(a) == <<normalize_url(a.link), Lower(Strip(a.title))>>

\* keep the first article of every key
RECURSIVE DedupeFrom(_, _, _)
DedupeFrom(articles, seen_keys, deduped) ==
    IF articles = <<>> THEN deduped
    ELSE LET a == Head(articles)
         IN  IF DedupKey(a) \in seen_keys
             THEN DedupeFrom(Tail(articles), seen_keys, deduped)
             ELSE DedupeFrom(Tail(articles), seen_keys \cup {DedupKey(a)},
                             Append(deduped, a))

Dedupe(articles) == DedupeFrom(articles, {}, <<>>)

\* lines 197-221, on the articles collected from the feeds
Shortlist(articles, now) ==
    LET deduped    == Take(Dedupe(SortByRecency(articles)), MAX_ARTICLES_TOTAL)
        prefer_cut == now - PREFER_RECENT_DAYS
        recent     == SelectSeq(deduped, LAMBDA a : a.published_dt >= prefer_cut)
        older      == SelectSeq(deduped, LAMBDA a : a.published_dt < prefer_cut)
    IN  Take(recent \o older, MAX_TO_MODEL)

fetch_recent_articles(responses, now) == Shortlist(CollectArticles(responses, now), now)

\* ------------------------------------------------------------------------
\* Curation (ai.digest.py, select_and_enrich_articles)
\* ------------------------------------------------------------------------

\* The answer of the completion call is a record [kind, items]:
\*   "raise"         the call throws
\*   "invalid_json"  the text is not JSON (json.loads raises)
\*   "object"        the text decodes to something that is not a list
\*   "list"          the text decodes to the list `items`
\* A Markdown fence around the JSON is removed before decoding and changes
\* none of the four cases.
WHY_IT_MATTERS == <<"Useful recent piece on marketing, AI, GTM or leadership.">>

ANGLE == <<"Share a concise summary, then add one sharp observation from your own experience.">>

\* lines 306-317
FallbackItem(a) ==
    [ title              |-> a.title,
      link               |-> a.link,
      published          |-> a.published,
      one_sentence       |-> Take(a.summary, SYNOPSIS_CHARS)
                             \o (IF Len(a.summary) > SYNOPSIS_CHARS THEN <<"...">> ELSE <<>>),
      why_it_matters     |-> WHY_IT_MATTERS,
      angle_for_linkedin |-> ANGLE ]

\* the fallback without its cut to CURATED_COUNT
Fallback_NoCap(articles) == [i \in 1..Len(articles) |-> FallbackItem(articles[i])]

Fallback(articles) ==
    LET top == Take(articles, CURATED_COUNT)
    IN  [i \in 1..Len(top) |-> FallbackItem(top[i])]

\* lines 228-318: the curated list for a shortlist and an answer of the model
select_and_enrich_articles(articles, reply) ==
    IF articles = <<>> THEN <<>>
    ELSE IF reply.kind = "list" THEN Take(reply.items, CURATED_COUNT)
    ELSE Fallback(articles)

\* a second attempt after the first call
CompletionCalls_Retry(articles) == IF articles = <<>> THEN 0 ELSE 2

\* lines 229-230, 279: the completion calls one invocation makes
CompletionCalls(articles) == IF articles = <<>> THEN 0 ELSE 1

\* the threshold without its floor of 3
BackupThreshold_NoFloor == CURATED_COUNT \div 2

\* line 448
BackupThreshold == Max(3, CURATED_COUNT \div 2)

\* ------------------------------------------------------------------------
\* Email rendering (ai.digest.py, build_email_html)
\* ------------------------------------------------------------------------

NO_ARTICLES_ROW == <<[kind |-> "notice"]>>

\* dict.get(key, default)
Get(art, key, default) == IF key \in DOMAIN art THEN art[key] ELSE default

\* lines 329-351: the card of the idx-th item; href and text are the target
\* and the text of its hyperlink (the source and date line is left out)
Card(idx, art) ==
    [ kind         |-> "card",
      idx          |-> idx,
      href         |-> Get(art, "link", <<"#">>),
      text         |-> Get(art, "title", <<"Untitled">>),
      one_sentence |-> Get(art, "one_sentence", <<>>),
      why          |-> Get(art, "why_it_matters", <<>>),
      angle        |-> Get(art, "angle_for_linkedin", <<>>) ]

\* the cards numbered from 0
build_email_html_FromZero(curated) ==
    IF curated = <<>> THEN NO_ARTICLES_ROW
    ELSE [i \in 1..Len(curated) |-> Card(i - 1, curated[i])]

\* lines 325-399: the rows between the header and the footer, one numbered
\* card per curated item in order, or the explanatory row
build_email_html(curated) ==
    IF curated = <<>> THEN NO_ARTICLES_ROW
    ELSE [i \in 1..Len(curated) |-> Card(i, curated[i])]

\* ------------------------------------------------------------------------
\* Inputs
\* ------------------------------------------------------------------------

MkEntry(title, link, published, updated, summary, description) ==
    [ title |-> title, link |-> link, published |-> published, updated |-> updated,
      created |-> NoDate, summary |-> summary, description |-> description ]

\* a summary one character longer than the synopsis limit
LongSummary == [i \in 1..(SYNOPSIS_CHARS + 1) |-> "x"]

\* The entries the feeds can return. P1, P2 and P3 are one article under
\* three spellings (title case and padding, a utm_ parameter, a fragment)
\* with three different dates; P4 is old and has no summary; P5 is older
\* than the lookback window; P6 has neither title nor link nor date.
P1 == MkEntry(<<"A">>, <<"a">>, 80, NoDate, <<"s">>, <<>>)

P2 == MkEntry(<<" ", "a">>, <<"a", "?", "utm_">>, 60, NoDate, <<>>, <<"s", " ">>)

P3 == MkEntry(<<"a">>, <<"a", "#", "f">>, BadDate, 95, <<"s">>, <<>>)

P4 == MkEntry(<<"B">>, <<"b", "?", "k", "&", "UTM_">>, 20, NoDate, <<>>, <<>>)

P5 == MkEntry(<<"c">>, <<"c">>, 5, NoDate, <<"s">>, <<>>)

P6 == MkEntry(<<>>, <<>>, NoDate, NoDate, <<"s">>, <<>>)

P7 == MkEntry(<<"d">>, <<"d", "?", "k">>, 90, NoDate, <<"s">>, <<>>)

\* an entry whose summary is longer than the synopsis limit
P8 == MkEntry(<<"e">>, <<"e">>, 70, NoDate, LongSummary, <<>>)

EntryPool == {P1, P2, P3, P4, P5, P6, P7}

\* sequences over S of length at most n
BoundedSeq(S, n) == UNION {[1..k -> S] : k \in 0..n}

\* most entries one feed returns in the ingestion-only specification
MaxFeedEntries == 2

\* the feed list of the ingestion-only specification
FETCH_FEEDS == <<"feed1", "feed2">>

FailedResponse == [ok |-> FALSE, entries |-> <<>>]

FeedResponses ==
    {FailedResponse} \cup {[ok |-> TRUE, entries |-> es] : es \in BoundedSeq(EntryPool, MaxFeedEntries)}

\* what one feed returns in a run of the content-pack job
JobFeedResponses ==
    {FailedResponse, [ok |-> TRUE, entries |-> <<>>]}
        \cup {[ok |-> TRUE, entries |-> <<e>>] : e \in EntryPool \ {P5}}

\* the configured feed lists, two primary feeds and one backup feed
RSS_FEEDS == <<"rss">>

REDDIT_FEEDS == <<"reddit">>

BACKUP_FEEDS == <<"backup">>

\* most items in a list the model returns
MaxModelItems == 4

\* an item as the model writes it
ModelItem ==
    [ title |-> <<"m">>, link |-> <<"m">>, published |-> 0, one_sentence |-> <<"m">>,
      why_it_matters |-> <<"m">>, angle_for_linkedin |-> <<"m">> ]

Replies ==
    {[kind |-> k, items |-> <<>>] : k \in {"raise", "invalid_json", "object"}}
        \cup {[kind |-> "list", items |-> [i \in 1..n |-> ModelItem]] : n \in 0..MaxModelItems}

\* the Sydney offsets from UTC, standard and daylight-saving time
SydneyOffsets == {10, 11}

Minutes == {0, 59}

\* datetime.now(ZoneInfo("Australia/Sydney"))
SydneyClock(utc_hour, minute, offset) ==
    [hour |-> (utc_hour + offset) % 24, minute |-> minute]

NoClock == [hour |-> 0 - 1, minute |-> 0 - 1]

EnvNames ==
    { "OPENAI_API_KEY", "SENDGRID_API_KEY", "MARKET_DIGEST_FROM", "MARKET_DIGEST_TO",
      "LI_CONTENT_EMAIL", "TIINGO_API_KEY", "ALPHAVANTAGE_API_KEY", "FINNHUB_API_KEY" }

\* ------------------------------------------------------------------------
\* State
\* ------------------------------------------------------------------------

VARIABLES
    job,               \* the program that runs
    pc,                \* its position
    err,               \* the exception that left main, NoError if none did
    enforce,           \* ENFORCE_SYDNEY_21H / ENFORCE_SYDNEY_8AM
    clock,             \* the Sydney time the gate read, NoClock if it read none
    env,               \* the environment variables as read: "set", "unset" (absent
                       \* or empty, which the truth tests do not tell apart), "unread"
    fetches,           \* the data fetches made, in order
    llm_calls,         \* completion calls made
    llm_result,        \* how the narrative jobs' completion call ended
    primary_articles,
    backup_articles,
    uniq_combined,
    curated,
    curations,         \* the invocations of select_and_enrich_articles, in order
    html,              \* the rendered email body
    mails_built,       \* Mail objects constructed
    send_attempts,     \* calls of the provider's send
    send_result,       \* "none", "ok" or "error"
    market_data,       \* market_digest.py: the watchlist rows fetched
    responses,         \* the feed responses given to fetch_recent_articles
    shortlisted,       \* its result
    hist,              \* fetch_market_data: the price history of the ticker looked up last
    info,              \* and how the lookup of its metadata ended
    answer,            \* the provider's answer given to a quote helper
    quote_result,      \* what the helper did with it
    calls,             \* build_market_snapshot: the provider calls made, in order
    snapshot           \* and the snapshot under construction

vars ==
    << CURATED_COUNT, job, pc, err, enforce, clock, env, fetches, llm_calls, llm_result,
       primary_articles, backup_articles, uniq_combined, curated, curations, html,
       mails_built,
       send_attempts, send_result, market_data, responses, shortlisted,
       hist, info, answer, quote_result, calls, snapshot >>

\* the variables of the three provider-facing functions checked on their own
WatchVars == << hist, info >>

QuoteVars == << answer, quote_result >>

SnapVars == << calls, snapshot >>

\* no history looked up, no answer given, nothing returned
NoHistory == [kind |-> "none", closes |-> <<>>]

NoAnswer == [shape |-> "unasked", body |-> <<>>]

NoResult == [kind |-> "pending", value |-> <<>>]

\* lines 224-231 of daily_investment.py
EmptySnapshot == [indices |-> <<>>, sectors |-> <<>>, ai_infra |-> <<>>, fx |-> <<>>, crypto |-> <<>>]

ProviderFresh ==
    /\ hist = NoHistory
    /\ info = "unread"
    /\ answer = NoAnswer
    /\ quote_result = NoResult
    /\ calls = <<>>
    /\ snapshot = EmptySnapshot

Unread == [n \in EnvNames |-> "unread"]

\* no exception: the pair is the exception's type and what it names
NoError == <<"none", "none">>

\* the state of a process before its first statement
Fresh ==
    /\ err = NoError
    /\ clock = NoClock
    /\ fetches = <<>>
    /\ llm_calls = 0
    /\ llm_result = "none"
    /\ primary_articles = <<>>
    /\ backup_articles = <<>>
    /\ uniq_combined = <<>>
    /\ curated = <<>>
    /\ curations = <<>>
    /\ html = <<>>
    /\ mails_built = 0
    /\ send_attempts = 0
    /\ send_result = "none"
    /\ market_data = <<>>
    /\ ProviderFresh

\* ------------------------------------------------------------------------
\* The content-pack job (ai.digest.py, main)
\* ------------------------------------------------------------------------

InitContent ==
    /\ CURATED_COUNT \in CuratedCounts
    /\ job = "content"
    /\ pc = "gate"
    /\ enforce \in BOOLEAN
    /\ env = Unread
    /\ responses = <<>>
    /\ shortlisted = <<>>
    /\ Fresh

\* the gate at exactly 21:00, any later minute of the hour declined
ContentGateSkips_OnTheHour(now_syd) == now_syd.hour # 21 \/ now_syd.minute # 0

\* line 438
ContentGateSkips(now_syd) == now_syd.hour # 21

\* lines 436-440
C_Gate ==
    /\ job = "content" /\ pc = "gate"
    /\ IF enforce
       THEN \E utc_hour \in 0..23, minute \in Minutes, offset \in SydneyOffsets :
              LET now_syd == SydneyClock(utc_hour, minute, offset)
              IN  /\ clock' = now_syd
                  /\ pc' = IF ContentGateSkips(now_syd) THEN "skipped" ELSE "fetch_primary"
       ELSE /\ pc' = "fetch_primary"
            /\ UNCHANGED clock
    /\ UNCHANGED << WatchVars, QuoteVars, SnapVars, CURATED_COUNT, backup_articles, job, err, enforce, env, fetches, llm_calls, llm_result,
                    primary_articles, uniq_combined, curated, curations, html,
                    mails_built, send_attempts, send_result, market_data,
                    responses, shortlisted >>

\* line 443
C_FetchPrimary ==
    /\ job = "content" /\ pc = "fetch_primary"
    /\ \E rs \in [1..Len(RSS_FEEDS \o REDDIT_FEEDS) -> JobFeedResponses] :
         primary_articles' = fetch_recent_articles(rs, Now)
    /\ fetches' = Append(fetches, "primary")
    /\ pc' = "curate"
    /\ UNCHANGED << WatchVars, QuoteVars, SnapVars, CURATED_COUNT, backup_articles, job, err, enforce, clock, env, llm_calls, llm_result,
                    uniq_combined, curated, curations, html, mails_built,
                    send_attempts, send_result, market_data, responses, shortlisted >>

\* lines 445-448
C_Curate ==
    /\ job = "content" /\ pc = "curate"
    /\ \E reply \in Replies :
         LET result == select_and_enrich_articles(primary_articles, reply)
         IN  /\ curated' = result
             /\ curations' = Append(curations,
                    [ articles |-> primary_articles,
                      reply    |-> IF primary_articles = <<>> THEN "no_call" ELSE reply.kind,
                      result   |-> result ])
             /\ pc' = IF Len(result) < BackupThreshold THEN "fetch_backup" ELSE "send"
    /\ llm_calls' = llm_calls + CompletionCalls(primary_articles)
    /\ UNCHANGED << WatchVars, QuoteVars, SnapVars, CURATED_COUNT, backup_articles, job, err, enforce, clock, env, fetches, llm_result,
                    primary_articles, uniq_combined, html, mails_built,
                    send_attempts, send_result, market_data, responses, shortlisted >>

\* lines 449-461
C_FetchBackup ==
    /\ job = "content" /\ pc = "fetch_backup"
    /\ \E rs \in [1..Len(BACKUP_FEEDS) -> JobFeedResponses] :
         LET fetched == fetch_recent_articles(rs, Now)
         IN  /\ backup_articles' = fetched
             /\ uniq_combined' = Dedupe(primary_articles \o fetched)
    /\ fetches' = Append(fetches, "backup")
    /\ pc' = "curate_backup"
    /\ UNCHANGED << WatchVars, QuoteVars, SnapVars, CURATED_COUNT, job, err, enforce, clock, env, llm_calls, llm_result,
                    primary_articles, curated, curations, html, mails_built,
                    send_attempts, send_result, market_data, responses, shortlisted >>

\* line 463
C_CurateBackup ==
    /\ job = "content" /\ pc = "curate_backup"
    /\ \E reply \in Replies :
         LET result == select_and_enrich_articles(uniq_combined, reply)
         IN  /\ curated' = result
             /\ curations' = Append(curations,
                    [ articles |-> uniq_combined,
                      reply    |-> IF uniq_combined = <<>> THEN "no_call" ELSE reply.kind,
                      result   |-> result ])
    /\ llm_calls' = llm_calls + CompletionCalls(uniq_combined)
    /\ pc' = "send"
    /\ UNCHANGED << WatchVars, QuoteVars, SnapVars, CURATED_COUNT, backup_articles, job, err, enforce, clock, env, fetches, llm_result,
                    primary_articles, uniq_combined, html, mails_built,
                    send_attempts, send_result, market_data, responses, shortlisted >>

ContentMailVars == {"SENDGRID_API_KEY", "MARKET_DIGEST_FROM", "LI_CONTENT_EMAIL"}

\* a check of the API key alone
MailSettingsMissing_KeyOnly(read) == read["SENDGRID_API_KEY"] = "unset"

\* line 411
MailSettingsMissing(read) == \E n \in ContentMailVars : read[n] = "unset"

\* a send whose failure is not caught
ContentSendEnd_Raises(result) ==
    IF result = "error" THEN [pc |-> "failed", err |-> <<"Exception", "sg.send">>]
    ELSE [pc |-> "done", err |-> NoError]

\* lines 422-427: the send is inside a try that catches every exception
ContentSendEnd(result) == [pc |-> "done", err |-> NoError]

\* lines 465-466 and 406-427: render, then send_email
C_Send ==
    /\ job = "content" /\ pc = "send"
    /\ html' = build_email_html(curated)
    /\ \E read \in [ContentMailVars -> {"set", "unset"}] :
         /\ env' = [n \in EnvNames |-> IF n \in ContentMailVars THEN read[n] ELSE env[n]]
         /\ IF MailSettingsMissing(read)
            THEN /\ pc' = "done"
                 /\ UNCHANGED << err, mails_built, send_attempts, send_result >>
            ELSE /\ mails_built' = mails_built + 1
                 /\ send_attempts' = send_attempts + 1
                 /\ \E result \in {"ok", "error"} :
                      /\ send_result' = result
                      /\ pc' = ContentSendEnd(result).pc
                      /\ err' = ContentSendEnd(result).err
    /\ UNCHANGED << WatchVars, QuoteVars, SnapVars, CURATED_COUNT, backup_articles, job, enforce, clock, fetches, llm_calls, llm_result,
                    primary_articles, uniq_combined, curated, curations,
                    market_data, responses, shortlisted >>

\* ------------------------------------------------------------------------
\* The investment-digest job (daily_investment.py, main)
\* ------------------------------------------------------------------------

\* lines 19-26: read when the module is loaded
InvestVars ==
    { "OPENAI_API_KEY", "SENDGRID_API_KEY", "MARKET_DIGEST_FROM", "MARKET_DIGEST_TO",
      "TIINGO_API_KEY", "ALPHAVANTAGE_API_KEY", "FINNHUB_API_KEY" }

\* the checks of main without the last one
REQUIRED_KEYS_Short == <<"OPENAI_API_KEY", "TIINGO_API_KEY", "ALPHAVANTAGE_API_KEY">>

\* lines 378-385, in the order main checks them
REQUIRED_KEYS == <<"OPENAI_API_KEY", "TIINGO_API_KEY", "ALPHAVANTAGE_API_KEY", "FINNHUB_API_KEY">>

\* lines 351-356, in the order send_email checks them
INVEST_MAIL_VARS == <<"SENDGRID_API_KEY", "MARKET_DIGEST_FROM", "MARKET_DIGEST_TO">>

\* the first name of the list that is not set, "none" if all are
RECURSIVE FirstMissing(_, _)
FirstMissing(names, e) ==
    IF names = <<>> THEN "none"
    ELSE IF e[Head(names)] # "set" THEN Head(names)
    ELSE FirstMissing(Tail(names), e)

InitInvest ==
    /\ CURATED_COUNT = CHOOSE c \in CuratedCounts : TRUE  \* daily_investment.py has no CURATED_COUNT
    /\ job = "invest"
    /\ pc = "gate"
    /\ enforce \in BOOLEAN
    /\ \E read \in [InvestVars -> {"set", "unset"}] :
         env = [n \in EnvNames |-> IF n \in InvestVars THEN read[n] ELSE "unread"]
    /\ responses = <<>>
    /\ shortlisted = <<>>
    /\ Fresh

\* line 374
InvestGateSkips(now_syd) == now_syd.hour # 8

\* lines 372-376
I_Gate ==
    /\ job = "invest" /\ pc = "gate"
    /\ IF enforce
       THEN \E utc_hour \in 0..23, minute \in Minutes, offset \in SydneyOffsets :
              LET now_syd == SydneyClock(utc_hour, minute, offset)
              IN  /\ clock' = now_syd
                  /\ pc' = IF InvestGateSkips(now_syd) THEN "skipped" ELSE "check_keys"
       ELSE /\ pc' = "check_keys"
            /\ UNCHANGED clock
    /\ UNCHANGED << WatchVars, QuoteVars, SnapVars, CURATED_COUNT, backup_articles, job, err, enforce, env, fetches, llm_calls, llm_result,
                    primary_articles, uniq_combined, curated, curations, html,
                    mails_built, send_attempts, send_result, market_data,
                    responses, shortlisted >>

\* lines 378-385
I_CheckKeys ==
    /\ job = "invest" /\ pc = "check_keys"
    /\ LET missing == FirstMissing(REQUIRED_KEYS, env)
       IN  IF missing # "none"
           THEN /\ err' = <<"RuntimeError", missing>>
                /\ pc' = "failed"
           ELSE /\ pc' = "snapshot"
                /\ UNCHANGED err
    /\ UNCHANGED << WatchVars, QuoteVars, SnapVars, CURATED_COUNT, backup_articles, job, enforce, clock, env, fetches, llm_calls, llm_result,
                    primary_articles, uniq_combined, curated, curations, html,
                    mails_built, send_attempts, send_result, market_data,
                    responses, shortlisted >>

\* line 387, build_market_snapshot (lines 220-266): the provider requests are
\* made; a provider answer of a shape the price, news and quote helpers do
\* not index (lines 81, 175, 201) raises out of it, as SpecSnapshot shows call
\* by call
I_Snapshot ==
    /\ job = "invest" /\ pc = "snapshot"
    /\ fetches' = Append(fetches, "snapshot")
    /\ \/ /\ pc' = "summary"
          /\ UNCHANGED err
       \/ /\ pc' = "failed"
          /\ err' = <<"Exception", "build_market_snapshot">>
    /\ UNCHANGED << WatchVars, QuoteVars, SnapVars, CURATED_COUNT, backup_articles, job, enforce, clock, env, llm_calls, llm_result,
                    primary_articles, uniq_combined, curated, curations, html,
                    mails_built, send_attempts, send_result, market_data,
                    responses, shortlisted >>

\* line 388, build_openai_summary (lines 323-332): one call, nothing caught
I_Summary ==
    /\ job = "invest" /\ pc = "summary"
    /\ llm_calls' = llm_calls + 1
    /\ \/ /\ llm_result' = "ok"
          /\ pc' = "send"
          /\ UNCHANGED err
       \/ /\ llm_result' = "raise"
          /\ pc' = "failed"
          /\ err' = <<"Exception", "chat.completions.create">>
    /\ UNCHANGED << WatchVars, QuoteVars, SnapVars, CURATED_COUNT, backup_articles, job, enforce, clock, env, fetches, primary_articles,
                    uniq_combined, curated, curations, html, mails_built,
                    send_attempts, send_result, market_data, responses, shortlisted >>

\* lines 364-366: nothing catches what the send raises
InvestSendEnd(result) ==
    IF result = "error" THEN [pc |-> "failed", err |-> <<"Exception", "sg.send">>]
    ELSE [pc |-> "done", err |-> NoError]

\* lines 389-390, build_email_html and send_email (lines 337-366)
I_Send ==
    /\ job = "invest" /\ pc = "send"
    /\ html' = <<[kind |-> "summary"]>>
    /\ LET missing == FirstMissing(INVEST_MAIL_VARS, env)
       IN  IF missing # "none"
           THEN /\ err' = <<"RuntimeError", missing>>
                /\ pc' = "failed"
                /\ UNCHANGED << mails_built, send_attempts, send_result >>
           ELSE /\ mails_built' = mails_built + 1
                /\ send_attempts' = send_attempts + 1
                /\ \E result \in {"ok", "error"} :
                     /\ send_result' = result
                     /\ pc' = InvestSendEnd(result).pc
                     /\ err' = InvestSendEnd(result).err
    /\ UNCHANGED << WatchVars, QuoteVars, SnapVars, CURATED_COUNT, backup_articles, job, enforce, clock, env, fetches, llm_calls, llm_result,
                    primary_articles, uniq_combined, curated, curations,
                    market_data, responses, shortlisted >>

\* ------------------------------------------------------------------------
\* The market-pulse job (market_digest.py, main)
\* ------------------------------------------------------------------------

\* the watchlist rows fetch_market_data can return (a ticker with fewer than
\* two bars, or whose lookup raises, has no row)
WATCHLIST == <<"VAS.AX", "NVDA">>

MarketDataChoices == {<<>>, <<"VAS.AX">>, <<"NVDA">>, <<"VAS.AX", "NVDA">>}

\* lines 190-192, in the order send_email_via_sendgrid reads them
MARKET_MAIL_VARS == <<"SENDGRID_API_KEY", "MARKET_DIGEST_TO", "MARKET_DIGEST_FROM">>

InitMarket ==
    /\ CURATED_COUNT = CHOOSE c \in CuratedCounts : TRUE  \* market_digest.py has no CURATED_COUNT
    /\ job = "market"
    /\ pc = "fetch"
    /\ enforce \in BOOLEAN  \* the configured toggle; market_digest.py never reads it
    /\ env = Unread
    /\ responses = <<>>
    /\ shortlisted = <<>>
    /\ Fresh

\* a run that goes on with no rows
MarketFetchEnd_NoExit(data) == "generate"

\* lines 217-219
MarketFetchEnd(data) == IF data = <<>> THEN "done" ELSE "generate"

\* lines 214-219
M_Fetch ==
    /\ job = "market" /\ pc = "fetch"
    /\ fetches' = Append(fetches, "watchlist")
    /\ \E data \in MarketDataChoices :
         /\ market_data' = data
         /\ pc' = MarketFetchEnd(data)
    /\ UNCHANGED << WatchVars, QuoteVars, SnapVars, CURATED_COUNT, backup_articles, job, err, enforce, clock, env, llm_calls, llm_result,
                    primary_articles, uniq_combined, curated, curations, html,
                    mails_built, send_attempts, send_result, responses, shortlisted >>

\* lines 221-228, generate_email_body (lines 168-183): os.environ[...] raises
\* KeyError when the key is not set; the call is made once and nothing is caught
M_Generate ==
    /\ job = "market" /\ pc = "generate"
    /\ \E key \in {"set", "unset"} :
         /\ env' = [env EXCEPT !["OPENAI_API_KEY"] = key]
         /\ IF key = "unset"
            THEN /\ err' = <<"KeyError", "OPENAI_API_KEY">>
                 /\ pc' = "failed"
                 /\ UNCHANGED << llm_calls, llm_result, html >>
            ELSE /\ llm_calls' = llm_calls + 1
                 /\ \/ /\ llm_result' = "ok"
                       /\ html' = <<[kind |-> "body"]>>
                       /\ pc' = "send"
                       /\ UNCHANGED err
                    \/ /\ llm_result' = "raise"
                       /\ pc' = "failed"
                       /\ err' = <<"Exception", "chat.completions.create">>
                       /\ UNCHANGED html
    /\ UNCHANGED << WatchVars, QuoteVars, SnapVars, CURATED_COUNT, backup_articles, job, enforce, clock, fetches, primary_articles,
                    uniq_combined, curated, curations, mails_built,
                    send_attempts, send_result, market_data, responses, shortlisted >>

\* lines 201-206: the send is inside a try that catches every exception
MarketSendEnd(result) == [pc |-> "done", err |-> NoError]

\* lines 230-236, send_email_via_sendgrid (lines 186-206): the three
\* os.environ[...] reads are outside the try, the send is inside it
M_Send ==
    /\ job = "market" /\ pc = "send"
    /\ \E read \in [{MARKET_MAIL_VARS[i] : i \in 1..3} -> {"set", "unset"}] :
         LET missing == FirstMissing(MARKET_MAIL_VARS, read)
             \* the reads stop at the first name that is not set
             reached(n) == \A i, j \in 1..3 :
                              MARKET_MAIL_VARS[i] = n /\ MARKET_MAIL_VARS[j] = missing => i <= j
         IN  /\ env' = [n \in EnvNames |->
                          IF n \in DOMAIN read /\ reached(n) THEN read[n] ELSE env[n]]
             /\ IF missing # "none"
                THEN /\ err' = <<"KeyError", missing>>
                     /\ pc' = "failed"
                     /\ UNCHANGED << mails_built, send_attempts, send_result >>
                ELSE /\ mails_built' = mails_built + 1
                     /\ send_attempts' = send_attempts + 1
                     /\ \E result \in {"ok", "error"} :
                          /\ send_result' = result
                          /\ pc' = MarketSendEnd(result).pc
                          /\ err' = MarketSendEnd(result).err
    /\ UNCHANGED << WatchVars, QuoteVars, SnapVars, CURATED_COUNT, backup_articles, job, enforce, clock, fetches, llm_calls, llm_result,
                    primary_articles, uniq_combined, curated, curations, html,
                    market_data, responses, shortlisted >>

\* ------------------------------------------------------------------------
\* The three jobs
\* ------------------------------------------------------------------------

Init == InitContent \/ InitInvest \/ InitMarket

Next ==
    \/ C_Gate
    \/ C_FetchPrimary
    \/ C_Curate
    \/ C_FetchBackup
    \/ C_CurateBackup
    \/ C_Send
    \/ I_Gate
    \/ I_CheckKeys
    \/ I_Snapshot
    \/ I_Summary
    \/ I_Send
    \/ M_Fetch
    \/ M_Generate
    \/ M_Send

Spec == Init /\ [][Next]_vars

\* ------------------------------------------------------------------------
\* fetch_recent_articles on its own: every list of feed responses
\* ------------------------------------------------------------------------

\* fetch_recent_articles does not read CURATED_COUNT
InitFetch ==
    /\ CURATED_COUNT = CHOOSE c \in CuratedCounts : TRUE
    /\ job = "fetch"
    /\ pc = "fetch"
    /\ enforce = FALSE
    /\ env = Unread
    /\ responses \in [1..Len(FETCH_FEEDS) -> FeedResponses]
    /\ shortlisted = <<>>
    /\ Fresh

\* lines 170-221
F_Fetch ==
    /\ job = "fetch" /\ pc = "fetch"
    /\ shortlisted' = fetch_recent_articles(responses, Now)
    /\ fetches' = Append(fetches, "primary")
    /\ pc' = "done"
    /\ UNCHANGED << WatchVars, QuoteVars, SnapVars, CURATED_COUNT, backup_articles, job, err, enforce, clock, env, llm_calls, llm_result,
                    primary_articles, uniq_combined, curated, curations, html,
                    mails_built, send_attempts, send_result, market_data, responses >>

SpecFetch == InitFetch /\ [][F_Fetch]_vars

\* ------------------------------------------------------------------------
\* select_and_enrich_articles on its own: every shortlist, every answer
\* ------------------------------------------------------------------------

\* longest shortlist in the curation-only specification
MaxShortlist == 4

\* the articles the entries of the pool parse to
ArticlePool == {ParseFeedEntries(<<e>>, Now)[1] : e \in {P1, P2, P4, P6, P8}}

InitCurate ==
    /\ CURATED_COUNT \in CuratedCounts
    /\ job = "curate"
    /\ pc = "curate"
    /\ enforce = FALSE
    /\ env = Unread
    /\ responses = <<>>
    /\ shortlisted \in BoundedSeq(ArticlePool, MaxShortlist)
    /\ Fresh

\* lines 228-318
S_Curate ==
    /\ job = "curate" /\ pc = "curate"
    /\ \E reply \in Replies :
         LET result == select_and_enrich_articles(shortlisted, reply)
         IN  /\ curated' = result
             /\ curations' = Append(curations,
                    [ articles |-> shortlisted,
                      reply    |-> IF shortlisted = <<>> THEN "no_call" ELSE reply.kind,
                      result   |-> result ])
    /\ llm_calls' = llm_calls + CompletionCalls(shortlisted)
    /\ pc' = "done"
    /\ UNCHANGED << WatchVars, QuoteVars, SnapVars, CURATED_COUNT, backup_articles, job, err, enforce, clock, env, fetches, llm_result,
                    primary_articles, uniq_combined, html, mails_built,
                    send_attempts, send_result, market_data, responses, shortlisted >>

SpecCurate == InitCurate /\ [][S_Curate]_vars

\* ------------------------------------------------------------------------
\* build_email_html on its own: every curated list
\* ------------------------------------------------------------------------

\* longest curated list in the rendering-only specification
MaxCurated == 3

\* curated items: a fallback item, an item as the model writes it, and two
\* items of the model that leave out the title, or the link and the angle
CuratedPool ==
    { FallbackItem(ParseFeedEntries(<<P1>>, Now)[1]),
      ModelItem,
      [ link |-> <<"n">>, published |-> 0, one_sentence |-> <<"n">>,
        why_it_matters |-> <<"n">>, angle_for_linkedin |-> <<"n">> ],
      [ title |-> <<"o">>, published |-> 0, one_sentence |-> <<"o">>,
        why_it_matters |-> <<"o">> ] }

InitRender ==
    /\ CURATED_COUNT = CHOOSE c \in CuratedCounts : TRUE  \* build_email_html does not read it
    /\ job = "render"
    /\ pc = "render"
    /\ enforce = FALSE
    /\ env = Unread
    /\ responses = <<>>
    /\ shortlisted = <<>>
    /\ err = NoError
    /\ clock = NoClock
    /\ fetches = <<>>
    /\ llm_calls = 0
    /\ llm_result = "none"
    /\ primary_articles = <<>>
    /\ backup_articles = <<>>
    /\ uniq_combined = <<>>
    /\ curated \in BoundedSeq(CuratedPool, MaxCurated)
    /\ curations = <<>>
    /\ html = <<>>
    /\ mails_built = 0
    /\ send_attempts = 0
    /\ send_result = "none"
    /\ market_data = <<>>
    /\ ProviderFresh

\* lines 325-399
R_Render ==
    /\ job = "render" /\ pc = "render"
    /\ html' = build_email_html(curated)
    /\ pc' = "done"
    /\ UNCHANGED << WatchVars, QuoteVars, SnapVars, CURATED_COUNT, backup_articles, job, err, enforce, clock, env, fetches, llm_calls,
                    llm_result, primary_articles, uniq_combined, curated, curations,
                    mails_built, send_attempts, send_result, market_data, responses,
                    shortlisted >>

SpecRender == InitRender /\ [][R_Render]_vars

\* ------------------------------------------------------------------------
\* fetch_market_data on its own (market_digest.py): every price history
\* ------------------------------------------------------------------------

\* most daily bars the 10-day window of a history holds
MaxBars == 7

\* closing prices, in whole currency units (positive: a close of zero or a
\* missing close is not a price the provider reports)
Closes == {98, 110}

\* t.history(...): it raises, or returns the closes of its bars, oldest first
Histories ==
    {[kind |-> "raise", closes |-> <<>>]}
        \cup {[kind |-> "bars", closes |-> c] : c \in BoundedSeq(Closes, MaxBars)}

\* t.info: it raises, or holds a shortName/longName, or holds neither
InfoOutcomes == {"raise", "named", "unnamed"}

\* round(100 * num / den, 2) in hundredths, for den > 0: the nearest
\* hundredth, a tie to the even one
RoundHundredths(num, den) ==
    LET n == num * 10000
        q == n \div den
        r == n % den
    IN  IF 2 * r < den THEN q
        ELSE IF 2 * r > den THEN q + 1
        ELSE IF q % 2 = 0 THEN q ELSE q + 1

\* lines 62, 70: ((price - base) / base) * 100, as rounded at lines 82-83
ChangePct(price, base) == RoundHundredths(price - base, base)

\* the oldest close of the window whatever its length
WeekClose_Oldest(closes) == closes[1]

\* lines 65-68: hist.iloc[-6] when there are 6 bars or more, else hist.iloc[0]
WeekClose(closes) ==
    IF Len(closes) >= 6 THEN closes[Len(closes) - 5] ELSE closes[1]

\* lines 51-90: the rows one ticker adds; price and percentages in hundredths
TickerRows(ticker, h, i) ==
    IF h.kind = "raise" \/ Len(h.closes) < 2 THEN <<>>
    ELSE IF i = "raise" THEN <<>>
    ELSE LET price      == h.closes[Len(h.closes)]
             prev_price == h.closes[Len(h.closes) - 1]
             week_price == WeekClose(h.closes)
         IN  << [ ticker          |-> ticker,
                  name            |-> IF i = "named" THEN "shortName" ELSE ticker,
                  price           |-> price * 100,
                  day_change_pct  |-> ChangePct(price, prev_price),
                  week_change_pct |-> ChangePct(price, week_price) ] >>

InitWatch ==
    /\ CURATED_COUNT = CHOOSE c \in CuratedCounts : TRUE  \* market_digest.py has no CURATED_COUNT
    /\ job = "watch"
    /\ pc = "fetch"
    /\ enforce = FALSE
    /\ env = Unread
    /\ responses = <<>>
    /\ shortlisted = <<>>
    /\ Fresh

\* lines 50-90: one turn of the loop over the tickers; the metadata is looked
\* up only for a ticker with two bars or more
W_Ticker ==
    /\ job = "watch" /\ pc = "fetch"
    /\ LET ticker == WATCHLIST[Len(fetches) + 1]
       IN  /\ \E h \in Histories :
                \E i \in (IF h.kind = "bars" /\ Len(h.closes) >= 2
                          THEN InfoOutcomes ELSE {"unread"}) :
                    /\ hist' = h
                    /\ info' = i
                    /\ market_data' = market_data \o TickerRows(ticker, h, i)
           /\ fetches' = Append(fetches, ticker)
    /\ pc' = IF Len(fetches) + 1 = Len(WATCHLIST) THEN "done" ELSE "fetch"
    /\ UNCHANGED << QuoteVars, SnapVars, CURATED_COUNT, backup_articles, job, err, enforce,
                    clock, env, llm_calls, llm_result, primary_articles, uniq_combined,
                    curated, curations, html, mails_built, send_attempts, send_result,
                    responses, shortlisted >>

SpecWatch == InitWatch /\ [][W_Ticker]_vars

\* ------------------------------------------------------------------------
\* The quote helpers of daily_investment.py on their own: every answer
\* ------------------------------------------------------------------------

\* A provider answer as safe_get returns it is a record [shape, body]:
\*   "none"  the request failed or the body was not JSON (safe_get gave None)
\*   "list"  a JSON array, body is the sequence of its items
\*   "dict"  a JSON object, body is the record of its members (<<>> for {})
\* A JSON value is null, a number or a non-empty string.
Null == [t |-> "null", v |-> 0]

Num(n) == [t |-> "num", v |-> n]

Text == [t |-> "str", v |-> 0]

QuoteValues == {Null, Num(0), Num(100), Num(110), Text}

\* the truth test of a JSON value
Truthy(x) == x.t = "str" \/ (x.t = "num" /\ x.v # 0)

\* "not data"
Falsy(data) == data.shape = "none" \/ DOMAIN data.body = {}

\* what a helper gives back: None, an exception, or a record
ReturnsNone == [kind |-> "none", value |-> <<>>]

Raises == [kind |-> "raise", value |-> <<>>]

Returns(value) == [kind |-> "record", value |-> value]

\* a percentage of 0 where the guard fails
PctChange_ZeroDefault(price, prev_close) ==
    IF price # Null /\ Truthy(prev_close) /\ price.t = "num" /\ prev_close.t = "num"
    THEN Num(((price.v - prev_close.v) * 10000) \div prev_close.v)
    ELSE Num(0)

\* lines 86-91 and 203-208: (price - prev_close) / prev_close * 100.0, kept
\* to a hundredth of a percent; arithmetic on a string raises inside the try
PctChange(price, prev_close) ==
    IF price # Null /\ Truthy(prev_close)
    THEN IF price.t = "num" /\ prev_close.t = "num"
         THEN Num(((price.v - prev_close.v) * 10000) \div prev_close.v)
         ELSE Null
    ELSE Null

\* lines 188-215; data.get on a list raises AttributeError (line 201)
get_crypto_quote(coin, data) ==
    IF Falsy(data) THEN ReturnsNone
    ELSE IF data.shape = "list" THEN Raises
    ELSE LET price      == Get(data.body, "c", Null)
             prev_close == Get(data.body, "pc", Null)
         IN  Returns([ symbol     |-> coin,
                       price      |-> price,
                       prev_close |-> prev_close,
                       pct_change |-> PctChange(price, prev_close) ])

\* lines 66-99; data[-1] on an object raises KeyError (line 81)
get_tiingo_price(symbol, data) ==
    IF Falsy(data) THEN ReturnsNone
    ELSE IF data.shape = "dict" THEN Raises
    ELSE LET n          == Len(data.body)
             latest     == data.body[n]
             close      == Get(latest, "close", Null)
             prev_close == IF n > 1 /\ DOMAIN data.body[n - 1] # {}
                           THEN Get(data.body[n - 1], "close", Null)
                           ELSE Null
         IN  Returns([ symbol     |-> symbol,
                       close      |-> close,
                       prev_close |-> prev_close,
                       pct_change |-> PctChange(close, prev_close),
                       date       |-> Get(latest, "date", Null) ])

FailedAnswer == [shape |-> "none", body |-> <<>>]

\* an object that reports an error instead of the data asked for
ErrorObject == [shape |-> "dict", body |-> [error |-> Text]]

\* the answers to the quote request: a failure, {}, an error object, an
\* array, and quotes with each of "c" and "pc" present or not
CryptoAnswers ==
    { FailedAnswer, [shape |-> "dict", body |-> <<>>], ErrorObject,
      [shape |-> "list", body |-> <<[c |-> Num(100), pc |-> Num(100)]>>] }
        \cup {[shape |-> "dict", body |-> [c |-> x, pc |-> y]] : x \in QuoteValues, y \in QuoteValues}
        \cup {[shape |-> "dict", body |-> [c |-> x]] : x \in QuoteValues}
        \cup {[shape |-> "dict", body |-> [pc |-> y]] : y \in QuoteValues}

\* a daily bar, with or without its close
Bars == {[close |-> x, date |-> Text] : x \in QuoteValues} \cup {[date |-> Text]}

\* the "limit" parameter of the price request
TIINGO_LIMIT == 2

\* the answers to the price request: a failure, [], an error object, and the
\* arrays of one bar up to TIINGO_LIMIT bars, oldest first
TiingoAnswers ==
    { FailedAnswer, [shape |-> "list", body |-> <<>>], ErrorObject }
        \cup {[shape |-> "list", body |-> b] : b \in BoundedSeq(Bars, TIINGO_LIMIT) \ {<<>>}}

InitQuote ==
    /\ CURATED_COUNT = CHOOSE c \in CuratedCounts : TRUE  \* daily_investment.py has no CURATED_COUNT
    /\ job = "quote"
    /\ enforce = FALSE
    /\ env = Unread
    /\ responses = <<>>
    /\ shortlisted = <<>>
    /\ err = NoError
    /\ clock = NoClock
    /\ fetches = <<>>
    /\ llm_calls = 0
    /\ llm_result = "none"
    /\ primary_articles = <<>>
    /\ backup_articles = <<>>
    /\ uniq_combined = <<>>
    /\ curated = <<>>
    /\ curations = <<>>
    /\ html = <<>>
    /\ mails_built = 0
    /\ send_attempts = 0
    /\ send_result = "none"
    /\ market_data = <<>>
    /\ hist = NoHistory
    /\ info = "unread"
    /\ quote_result = NoResult
    /\ calls = <<>>
    /\ snapshot = EmptySnapshot
    /\ \/ pc = "get_crypto_quote" /\ answer \in CryptoAnswers
       \/ pc = "get_tiingo_price" /\ answer \in TiingoAnswers

\* lines 188-215
Q_Crypto ==
    /\ job = "quote" /\ pc = "get_crypto_quote"
    /\ quote_result' = get_crypto_quote("BTC", answer)
    /\ fetches' = Append(fetches, "get_crypto_quote")
    /\ pc' = "done"
    /\ UNCHANGED << WatchVars, SnapVars, answer, CURATED_COUNT, backup_articles, job, err,
                    enforce, clock, env, llm_calls, llm_result, primary_articles,
                    uniq_combined, curated, curations, html, mails_built, send_attempts,
                    send_result, market_data, responses, shortlisted >>

\* lines 66-99
Q_Tiingo ==
    /\ job = "quote" /\ pc = "get_tiingo_price"
    /\ quote_result' = get_tiingo_price("SPY", answer)
    /\ fetches' = Append(fetches, "get_tiingo_price")
    /\ pc' = "done"
    /\ UNCHANGED << WatchVars, SnapVars, answer, CURATED_COUNT, backup_articles, job, err,
                    enforce, clock, env, llm_calls, llm_result, primary_articles,
                    uniq_combined, curated, curations, html, mails_built, send_attempts,
                    send_result, market_data, responses, shortlisted >>

SpecQuote == InitQuote /\ [][Q_Crypto \/ Q_Tiingo]_vars

\* ------------------------------------------------------------------------
\* build_market_snapshot on its own (daily_investment.py): every combination
\* of provider answers
\* ------------------------------------------------------------------------

\* lines 35-41, one symbol per group
MARKET_UNIVERSE ==
    [ Indices |-> <<"SPY">>, Sectors |-> <<"XLK">>, AIInfra |-> <<"SOXX">>,
      FX |-> <<"AUDUSD">>, Crypto |-> <<"BTC">> ]

RSI_KEY == "Technical Analysis: RSI"

FX_KEY == "Realtime Currency Exchange Rate"

\* "key in data": on an array of objects the test is false
HasKey(data, key) == data.shape = "dict" /\ key \in DOMAIN data.body

\* lines 104-130: the latest value of the series, None without the series
\* key, for an empty series and for a value float() rejects
get_alpha_rsi(symbol, data) ==
    IF Falsy(data) \/ ~HasKey(data, RSI_KEY) THEN ReturnsNone
    ELSE LET rsi_series == data.body[RSI_KEY]
         IN  IF rsi_series = <<>> THEN ReturnsNone
             ELSE LET latest == rsi_series[Len(rsi_series)]
                  IN  IF latest.RSI.t = "num"
                      THEN Returns([symbol |-> symbol, rsi |-> latest.RSI, date |-> latest.date])
                      ELSE ReturnsNone

\* lines 133-151: always a record, the rate None unless it is read and parsed
get_fx_rate(pair, data) ==
    LET rate == IF ~Falsy(data) /\ HasKey(data, FX_KEY)
                THEN LET raw == data.body[FX_KEY]
                     IN  IF raw.rate.t = "num" THEN raw.rate ELSE Null
                ELSE Null
    IN  Returns([pair |-> pair, rate |-> rate])

\* the max_items default of get_finnhub_news
MAX_NEWS_ITEMS == 3

\* lines 156-185; data[:max_items] on an object raises (line 175)
get_finnhub_news(symbol, data) ==
    IF Falsy(data) THEN Returns(<<>>)
    ELSE IF data.shape = "dict" THEN Raises
    ELSE LET items == Take(data.body, MAX_NEWS_ITEMS)
         IN  Returns([k \in 1..Len(items) |->
                        [ headline  |-> Get(items[k], "headline", Null),
                          published |-> Get(items[k], "datetime", Null) ]])

GoodBar(close) == [close |-> Num(close), date |-> Text]

\* the answers of each provider: a failed request, an empty body, an object
\* reporting an error, an array where an object is expected, and good data
PriceAnswers ==
    { FailedAnswer, [shape |-> "list", body |-> <<>>], ErrorObject,
      [shape |-> "list", body |-> <<GoodBar(100), GoodBar(110)>>] }

RsiAnswers ==
    { FailedAnswer, ErrorObject,
      [shape |-> "list", body |-> <<[error |-> Text]>>],
      [shape |-> "dict", body |-> [k \in {RSI_KEY} |-> <<>>]],
      [shape |-> "dict", body |-> [k \in {RSI_KEY} |-> <<[date |-> Text, RSI |-> Num(55)]>>]] }

NewsAnswers ==
    { FailedAnswer, [shape |-> "list", body |-> <<>>], ErrorObject,
      [shape |-> "list", body |-> <<[headline |-> Text, datetime |-> Num(1)]>>] }

FxAnswers ==
    { FailedAnswer, ErrorObject,
      [shape |-> "list", body |-> <<[error |-> Text]>>],
      [shape |-> "dict", body |-> [k \in {FX_KEY} |-> [rate |-> Text]]],
      [shape |-> "dict", body |-> [k \in {FX_KEY} |-> [rate |-> Num(1)]]] }

SnapshotCryptoAnswers ==
    { FailedAnswer, ErrorObject,
      [shape |-> "list", body |-> <<[error |-> Text]>>],
      [shape |-> "dict", body |-> [c |-> Num(110), pc |-> Num(100)]] }

\* lines 234-249: the equity symbols in the order the loops visit them
EquityPlan ==
    [k \in 1..Len(MARKET_UNIVERSE.Indices) |->
        [group |-> "indices", symbol |-> MARKET_UNIVERSE.Indices[k]]]
    \o [k \in 1..Len(MARKET_UNIVERSE.Sectors) |->
        [group |-> "sectors", symbol |-> MARKET_UNIVERSE.Sectors[k]]]
    \o [k \in 1..Len(MARKET_UNIVERSE.AIInfra) |->
        [group |-> "ai_infra", symbol |-> MARKET_UNIVERSE.AIInfra[k]]]

Call(fn, symbol) == [fn |-> fn, symbol |-> symbol]

\* an exception that leaves build_market_snapshot
SnapshotError(fn) == <<"Exception", fn>>

InitSnapshot ==
    /\ CURATED_COUNT = CHOOSE c \in CuratedCounts : TRUE  \* daily_investment.py has no CURATED_COUNT
    /\ job = "snapshot"
    /\ pc = "equities"
    /\ enforce = FALSE
    /\ env = Unread
    /\ responses = <<>>
    /\ shortlisted = <<>>
    /\ Fresh

\* lines 239-249: one turn of the loops over the equity symbols; nothing
\* catches what a helper raises
S_Equity ==
    /\ job = "snapshot" /\ pc = "equities"
    /\ LET done == Len(snapshot.indices) + Len(snapshot.sectors) + Len(snapshot.ai_infra)
           item == EquityPlan[done + 1]
       IN  \E p \in PriceAnswers, r \in RsiAnswers, n \in NewsAnswers :
             LET price == get_tiingo_price(item.symbol, p)
                 rsi   == get_alpha_rsi(item.symbol, r)
                 news  == get_finnhub_news(item.symbol, n)
                 entry == [symbol |-> item.symbol, price |-> price, rsi |-> rsi,
                           news |-> news.value]
             IN  IF price.kind = "raise"
                 THEN /\ calls' = Append(calls, Call("get_tiingo_price", item.symbol))
                      /\ err' = SnapshotError("get_tiingo_price")
                      /\ pc' = "failed"
                      /\ UNCHANGED snapshot
                 ELSE /\ calls' = calls \o << Call("get_tiingo_price", item.symbol),
                                             Call("get_alpha_rsi", item.symbol),
                                             Call("get_finnhub_news", item.symbol) >>
                      /\ IF news.kind = "raise"
                         THEN /\ err' = SnapshotError("get_finnhub_news")
                              /\ pc' = "failed"
                              /\ UNCHANGED snapshot
                         ELSE /\ snapshot' =
                                   [snapshot EXCEPT ![item.group] = Append(@, entry)]
                              /\ pc' = IF done + 1 = Len(EquityPlan) THEN "fx" ELSE "equities"
                              /\ UNCHANGED err
    /\ UNCHANGED << WatchVars, QuoteVars, CURATED_COUNT, backup_articles, job, enforce,
                    clock, env, fetches, llm_calls, llm_result, primary_articles,
                    uniq_combined, curated, curations, html, mails_built, send_attempts,
                    send_result, market_data, responses, shortlisted >>

\* lines 252-256: one turn of the loop over the FX pairs
S_Fx ==
    /\ job = "snapshot" /\ pc = "fx"
    /\ LET pair == MARKET_UNIVERSE.FX[Len(snapshot.fx) + 1]
       IN  /\ \E a \in FxAnswers :
                snapshot' = [snapshot EXCEPT !.fx = Append(@, get_fx_rate(pair, a))]
           /\ calls' = Append(calls, Call("get_fx_rate", pair))
    /\ pc' = IF Len(snapshot.fx) + 1 = Len(MARKET_UNIVERSE.FX) THEN "crypto" ELSE "fx"
    /\ UNCHANGED << WatchVars, QuoteVars, CURATED_COUNT, backup_articles, job, err, enforce,
                    clock, env, fetches, llm_calls, llm_result, primary_articles,
                    uniq_combined, curated, curations, html, mails_built, send_attempts,
                    send_result, market_data, responses, shortlisted >>

\* lines 259-265: one turn of the loop over the coins; nothing catches what
\* get_crypto_quote raises
S_Crypto ==
    /\ job = "snapshot" /\ pc = "crypto"
    /\ LET coin == MARKET_UNIVERSE.Crypto[Len(snapshot.crypto) + 1]
       IN  /\ calls' = Append(calls, Call("get_crypto_quote", coin))
           /\ \E a \in SnapshotCryptoAnswers :
                LET quote == get_crypto_quote(coin, a)
                IN  IF quote.kind = "raise"
                    THEN /\ err' = SnapshotError("get_crypto_quote")
                         /\ pc' = "failed"
                         /\ UNCHANGED snapshot
                    ELSE /\ snapshot' = [snapshot EXCEPT !.crypto = Append(@, quote)]
                         /\ pc' = IF Len(snapshot.crypto) + 1 = Len(MARKET_UNIVERSE.Crypto)
                                  THEN "done" ELSE "crypto"
                         /\ UNCHANGED err
    /\ UNCHANGED << WatchVars, QuoteVars, CURATED_COUNT, backup_articles, job, enforce,
                    clock, env, fetches, llm_calls, llm_result, primary_articles,
                    uniq_combined, curated, curations, html, mails_built, send_attempts,
                    send_result, market_data, responses, shortlisted >>

SpecSnapshot == InitSnapshot /\ [][S_Equity \/ S_Fx \/ S_Crypto]_vars

\* ------------------------------------------------------------------------
\* Properties
\* ------------------------------------------------------------------------

\* the articles collected from the feeds of the ingestion-only specification
Collected == CollectArticles(responses, Now)

KeysOf(list) == {DedupKey(list[i]) : i \in 1..Len(list)}

KeyCount(list, k) == Cardinality({i \in 1..Len(list) : DedupKey(list[i]) = k})

\* keys that two or more collected articles share
DuplicatedKeys(list) == {k \in KeysOf(list) : KeyCount(list, k) >= 2}

\* the latest timestamp among the articles of key k
LatestOf(list, k) ==
    CHOOSE t \in {list[i].published_dt : i \in {j \in 1..Len(list) : DedupKey(list[j]) = k}} :
        \A i \in 1..Len(list) : DedupKey(list[i]) = k => list[i].published_dt <= t

FetchDone == job = "fetch" /\ pc = "done"

\* C1 as stated: of the fetched articles that share a key, the shortlist
\* holds exactly one, the one with the latest timestamp.
C1_AsStated ==
    FetchDone =>
        \A k \in DuplicatedKeys(Collected) :
            /\ KeyCount(shortlisted, k) = 1
            /\ \A i \in 1..Len(shortlisted) :
                 DedupKey(shortlisted[i]) = k =>
                     shortlisted[i].published_dt = LatestOf(Collected, k)

\* C1 amended: of the fetched articles that share a key, the shortlist holds
\* at most one, and the one it holds has the latest timestamp of them; it
\* holds exactly one when the fetched articles have no more distinct keys
\* than both caps (MAX_ARTICLES_TOTAL and MAX_TO_MODEL) allow.
C1_Dedup ==
    FetchDone =>
        \A k \in DuplicatedKeys(Collected) :
            /\ KeyCount(shortlisted, k) <= 1
            /\ \A i \in 1..Len(shortlisted) :
                 DedupKey(shortlisted[i]) = k =>
                     shortlisted[i].published_dt = LatestOf(Collected, k)
            /\ Cardinality(KeysOf(Collected)) <= Min(MAX_ARTICLES_TOTAL, MAX_TO_MODEL)
                 => KeyCount(shortlisted, k) = 1

\* two spellings of one article with different dates were fetched, the later
\* one after the earlier one, and the shortlist holds the later one
C1_Witness ==
    /\ FetchDone
    /\ \E i, j \in 1..Len(Collected) :
         /\ i < j
         /\ DedupKey(Collected[i]) = DedupKey(Collected[j])
         /\ Collected[i].link # Collected[j].link
         /\ Collected[i].published_dt < Collected[j].published_dt
         /\ \E n \in 1..Len(shortlisted) : shortlisted[n] = Collected[j]

\* C2: the content-pack run passes its gate exactly when enforcement is off
\* or the Sydney hour is 21, whatever the minute; a declined run has ended
\* without an error and has fetched nothing, called no model, sent nothing.
C2_Gate ==
    job = "content" /\ pc # "gate" =>
        /\ (pc # "skipped") <=> (~enforce \/ clock.hour = 21)
        /\ pc = "skipped" =>
             /\ err = NoError
             /\ fetches = <<>>
             /\ llm_calls = 0
             /\ curations = <<>>
             /\ mails_built = 0
             /\ send_attempts = 0

\* an enforced run that read 21:59 and went on to fetch and to finish
C2_Witness ==
    /\ job = "content" /\ enforce
    /\ clock = [hour |-> 21, minute |-> 59]
    /\ pc = "done"
    /\ fetches # <<>>

ElementsOf(list) == {list[i] : i \in 1..Len(list)}

\* the list is the union of the two lists, one article per key
IsDedupedUnion(list, first, second) ==
    /\ \A i, j \in 1..Len(list) : i # j => DedupKey(list[i]) # DedupKey(list[j])
    /\ KeysOf(list) = KeysOf(first) \cup KeysOf(second)
    /\ ElementsOf(list) \subseteq ElementsOf(first) \cup ElementsOf(second)

\* C3: once the content-pack run is past curation, a first curated list
\* shorter than max(3, CURATED_COUNT // 2) has been followed by exactly one
\* fetch of the backup feeds and one second curation on the deduplicated
\* union of the primary and backup articles; a first list that meets the
\* threshold by no backup fetch and no second curation.
C3_Backup ==
    job = "content" /\ pc \in {"send", "done"} =>
        LET threshold == IF CURATED_COUNT \div 2 > 3 THEN CURATED_COUNT \div 2 ELSE 3
        IN  /\ curations[1].articles = primary_articles
            /\ IF Len(curations[1].result) < threshold
               THEN /\ fetches = <<"primary", "backup">>
                    /\ Len(curations) = 2
                    /\ IsDedupedUnion(curations[2].articles, primary_articles, backup_articles)
               ELSE /\ fetches = <<"primary">>
                    /\ Len(curations) = 1
                    /\ backup_articles = <<>>

\* a run whose threshold is CURATED_COUNT // 2 = 4, whose first curation gave
\* three items, whose backup feed repeated a primary article, and whose
\* second curation ran on the union
C3_Witness ==
    /\ job = "content" /\ pc = "done"
    /\ CURATED_COUNT \div 2 > 3
    /\ Len(curations) = 2
    /\ Len(curations[1].result) = 3
    /\ backup_articles # <<>>
    /\ Len(curations[2].articles) < Len(primary_articles) + Len(backup_articles)

CurateDone == job = "curate" /\ pc = "done"

\* C4 as stated: after a call that raises or an answer that is not JSON, the
\* result is the first min(CURATED_COUNT, len) articles in order, each with
\* a non-empty synopsis taken from the summary and non-empty generic fields.
C4_AsStated ==
    CurateDone /\ curations[1].reply \in {"raise", "invalid_json"} =>
        LET a == curations[1].articles
            r == curations[1].result
        IN  /\ Len(r) = Min(CURATED_COUNT, Len(a))
            /\ \A i \in 1..Len(r) :
                 /\ r[i].title = a[i].title
                 /\ r[i].link = a[i].link
                 /\ r[i].one_sentence # <<>>
                 /\ Take(r[i].one_sentence, Min(Len(a[i].summary), SYNOPSIS_CHARS))
                      = Take(a[i].summary, SYNOPSIS_CHARS)
                 /\ r[i].why_it_matters # <<>>
                 /\ r[i].angle_for_linkedin # <<>>

\* C4 amended: after a call that raises or an answer that is not JSON, the
\* result is the first min(CURATED_COUNT, len) articles in order; each
\* synopsis is the summary cut to 260 characters, followed by "..." when the
\* summary was longer, so it is non-empty exactly when the summary is; the
\* generic why-it-matters and angle fields are non-empty.
C4_Fallback ==
    CurateDone /\ curations[1].reply \in {"raise", "invalid_json"} =>
        LET a == curations[1].articles
            r == curations[1].result
        IN  /\ Len(r) = Min(CURATED_COUNT, Len(a))
            /\ \A i \in 1..Len(r) :
                 /\ r[i].title = a[i].title
                 /\ r[i].link = a[i].link
                 /\ (r[i].one_sentence # <<>>) <=> (a[i].summary # <<>>)
                 /\ IF Len(a[i].summary) <= SYNOPSIS_CHARS
                    THEN r[i].one_sentence = a[i].summary
                    ELSE r[i].one_sentence = SubSeq(a[i].summary, 1, SYNOPSIS_CHARS) \o <<"...">>
                 /\ r[i].why_it_matters # <<>>
                 /\ r[i].angle_for_linkedin # <<>>

\* the call raised on a shortlist longer than CURATED_COUNT whose first
\* articles include one without a summary and one with a long summary
C4_Witness ==
    /\ CurateDone
    /\ curations[1].reply = "raise"
    /\ Len(curations[1].articles) > CURATED_COUNT
    /\ \E i, j \in 1..Len(curations[1].result) :
         /\ curations[1].articles[i].summary = <<>>
         /\ Len(curations[1].articles[j].summary) > SYNOPSIS_CHARS

\* C5 as stated: a call that throws, an answer that is not JSON, one that is
\* not a list and one that is an empty list all end in the fallback, so a
\* non-empty shortlist never gives an empty curated list.
C5_AsStated ==
    CurateDone /\ curations[1].articles # <<>> =>
        /\ curations[1].result # <<>>
        /\ curations[1].reply \in {"raise", "invalid_json", "object"} =>
             Len(curations[1].result) = Min(CURATED_COUNT, Len(curations[1].articles))

\* C6: in the investment digest, with one of the four provider keys absent,
\* a run that passed the gate and the key checks has failed with a
\* RuntimeError naming an absent key (the first absent one in the order
\* checked), and no request, no completion call and no send was made.
C6_FastFail ==
    LET keys == {"OPENAI_API_KEY", "TIINGO_API_KEY", "ALPHAVANTAGE_API_KEY", "FINNHUB_API_KEY"}
    IN  job = "invest" /\ (\E k \in keys : env[k] = "unset") =>
            /\ fetches = <<>>
            /\ llm_calls = 0
            /\ mails_built = 0
            /\ send_attempts = 0
            /\ pc \notin {"gate", "check_keys", "skipped"} =>
                 /\ pc = "failed"
                 /\ err[1] = "RuntimeError"
                 /\ err[2] \in keys
                 /\ env[err[2]] = "unset"
                 /\ Cardinality({k \in keys : env[k] = "unset"}) = 1 =>
                      err[2] = CHOOSE k \in keys : env[k] = "unset"

\* the gate passed at 8 o'clock and only FINNHUB_API_KEY was absent
C6_Witness ==
    /\ job = "invest" /\ enforce /\ clock.hour = 8
    /\ pc = "failed"
    /\ err = <<"RuntimeError", "FINNHUB_API_KEY">>
    /\ \A n \in InvestVars \ {"FINNHUB_API_KEY"} : env[n] = "set"

\* the settings each narrative job needs
RequiredSettings(j) ==
    IF j = "invest" THEN InvestVars
    ELSE {"OPENAI_API_KEY", "SENDGRID_API_KEY", "MARKET_DIGEST_FROM", "MARKET_DIGEST_TO"}

\* C7 as stated: in the investment digest and the market pulse, a missing
\* setting (email settings included) fails the run before any market-data
\* request and any completion call.
C7_AsStated ==
    job \in {"invest", "market"} /\ (\E n \in RequiredSettings(job) : env[n] = "unset") =>
        /\ fetches = <<>>
        /\ llm_calls = 0

\* C8: in the content pack, with one of the three mail settings missing the
\* run has ended without an error, no message was built and none was sent.
C8_SkipSend ==
    job = "content" /\ (\E n \in ContentMailVars : env[n] = "unset") =>
        /\ pc = "done"
        /\ err = NoError
        /\ mails_built = 0
        /\ send_attempts = 0
        /\ send_result = "none"

\* a finished run with articles to send whose only missing setting was the
\* recipient
C8_Witness ==
    /\ job = "content" /\ pc = "done"
    /\ curated # <<>>
    /\ env["SENDGRID_API_KEY"] = "set"
    /\ env["MARKET_DIGEST_FROM"] = "set"
    /\ env["LI_CONTENT_EMAIL"] = "unset"

\* C9 as stated: a failed send is swallowed by the content pack and leaves
\* the run of each of the other two jobs as an exception.
C9_AsStated ==
    send_result = "error" =>
        /\ job = "content" => pc = "done" /\ err = NoError
        /\ job \in {"invest", "market"} => pc = "failed" /\ err # NoError

\* C9 amended: a failed send is swallowed by the content pack and by the
\* market pulse, whose runs end normally; only in the investment digest does
\* it leave the run as an exception.
C9_Delivery ==
    send_result = "error" =>
        /\ job \in {"content", "market"} => pc = "done" /\ err = NoError
        /\ job = "invest" => pc = "failed" /\ err = <<"Exception", "sg.send">>

\* a market-pulse run whose send failed
C9_Witness ==
    /\ job = "market"
    /\ send_attempts = 1
    /\ send_result = "error"

\* the run has entered its summary step (build_openai_summary,
\* generate_email_body)
SummaryReached ==
    \/ job = "invest" /\ pc \in {"send", "done"}
    \/ job = "invest" /\ pc = "failed" /\ fetches # <<>>
                      /\ err # <<"Exception", "build_market_snapshot">>
    \/ job = "market" /\ pc = "send"
    \/ job = "market" /\ pc \in {"done", "failed"} /\ market_data # <<>>

\* C10 as stated: a run of a narrative job that reaches the summary step
\* makes exactly one completion call; when the call raises, the exception
\* leaves main, no body is made and no send is attempted.
C10_AsStated ==
    SummaryReached =>
        /\ llm_calls = 1
        /\ llm_result = "raise" =>
             /\ pc = "failed"
             /\ err = <<"Exception", "chat.completions.create">>
             /\ html = <<>>
             /\ mails_built = 0
             /\ send_attempts = 0

\* C12 as stated: every invocation of select_and_enrich_articles has made
\* exactly one completion call, whatever the shortlist and the answer.
C12_AsStated ==
    CurateDone => llm_calls = 1

\* C12 amended: an invocation on a non-empty shortlist has made exactly one
\* completion call whatever the answer (no retry), and an invocation on an
\* empty shortlist has made none.
C12_NoRetry ==
    CurateDone =>
        /\ Len(curations) = 1
        /\ llm_calls = (IF curations[1].articles = <<>> THEN 0 ELSE 1)
        /\ (curations[1].reply = "no_call") <=> (curations[1].articles = <<>>)

\* the call raised on a non-empty shortlist and was not repeated
C12_Witness ==
    /\ CurateDone
    /\ curations[1].articles # <<>>
    /\ curations[1].reply = "raise"
    /\ llm_calls = 1

\* a run that has fetched data, called the model or attempted a send
RunActed == fetches # <<>> \/ llm_calls > 0 \/ send_attempts > 0

\* the hour of the job's schedule gate
TargetHour == IF job = "invest" THEN 8 ELSE 21

\* C13 as stated: in each of the three jobs, with enforcement on, a run that
\* fetched data, called the model or attempted a send has read a Sydney hour
\* equal to its target hour (21 for content pack and market pulse, 8 for the
\* investment digest) at its gate.
C13_AsStated ==
    job \in {"content", "invest", "market"} /\ enforce /\ RunActed =>
        clock.hour = TargetHour

\* C17 as stated: no article of the list fetch_recent_articles returns has
\* an empty title or an empty link.
C17_AsStated ==
    FetchDone =>
        \A i \in 1..Len(shortlisted) :
            shortlisted[i].title # <<>> /\ shortlisted[i].link # <<>>

\* C18 as stated: every curation call of a content-pack run, the second one
\* on the merged list included, is given at most MAX_TO_MODEL articles.
C18_AsStated ==
    job = "content" =>
        \A i \in 1..Len(curations) : Len(curations[i].articles) <= MAX_TO_MODEL

\* publication timestamps never increase along the list
RecencySorted(list) ==
    \A i, j \in 1..Len(list) : i < j => list[i].published_dt >= list[j].published_dt

\* C19 as stated: every list handed to curation in a content-pack run, the
\* primary shortlist and the merged list, is ordered by publication
\* timestamp, latest first.
C19_AsStated ==
    job = "content" =>
        \A i \in 1..Len(curations) : RecencySorted(curations[i].articles)

\* C20: in each of the three jobs a run attempts at most one send; in the
\* step that attempts it and in every later step no data is fetched and no
\* completion call is made; a market-pulse run whose watchlist fetch gave no
\* rows has ended with no completion call and no send attempt.
C20_SendLast ==
    /\ [](job \in {"content", "invest", "market"} => send_attempts <= 1 /\ mails_built <= 1)
    /\ [][ send_attempts' > 0 => fetches' = fetches /\ llm_calls' = llm_calls ]_vars
    /\ [](job = "market" /\ pc # "fetch" /\ market_data = <<>> =>
            pc = "done" /\ llm_calls = 0 /\ mails_built = 0 /\ send_attempts = 0)

\* a content-pack run that sent its one email after two fetches and two
\* completion calls
C20_Witness ==
    /\ job = "content" /\ pc = "done"
    /\ fetches = <<"primary", "backup">>
    /\ llm_calls = 2
    /\ send_attempts = 1

RenderDone == job = "render" /\ pc = "done"

\* C16: the rendered rows are one card per curated item, in input order and
\* numbered from 1; the hyperlink of card k has the k-th item's title as its
\* text and its link as its target (the placeholders "Untitled" and "#" for
\* an item without the field); an empty curated list renders the single
\* explanatory row and no card.
C16_Cards ==
    RenderDone =>
        IF curated = <<>>
        THEN /\ html = NO_ARTICLES_ROW
             /\ Len(html) = 1
             /\ html[1].kind = "notice"
        ELSE /\ Len(html) = Len(curated)
             /\ \A k \in 1..Len(html) :
                  /\ html[k].kind = "card"
                  /\ html[k].idx = k
                  /\ "title" \in DOMAIN curated[k] => html[k].text = curated[k].title
                  /\ "link" \in DOMAIN curated[k] => html[k].href = curated[k].link
                  /\ "title" \notin DOMAIN curated[k] => html[k].text = <<"Untitled">>
                  /\ "link" \notin DOMAIN curated[k] => html[k].href = <<"#">>
                  /\ html[k].one_sentence = curated[k].one_sentence

\* three items with different titles and links, rendered as three cards
C16_Witness ==
    /\ RenderDone
    /\ Len(curated) = 3
    /\ \A k \in 1..3 : "title" \in DOMAIN curated[k] /\ "link" \in DOMAIN curated[k]
    /\ curated[1].title # curated[2].title
    /\ curated[1].link # curated[2].link
    /\ Len(html) = 3

Abs(x) == IF x < 0 THEN 0 - x ELSE x

\* v hundredths is 100 * num / den rounded to two decimals
IsRounded(v, num, den) == 2 * Abs(v * den - num * 10000) <= den

\* the rows of the ticker looked up last
LastTickerRows ==
    {k \in 1..Len(market_data) : market_data[k].ticker = fetches[Len(fetches)]}

\* C14: after each ticker of fetch_market_data, a ticker with fewer than two
\* bars has no row; a row emitted for a ticker with n >= 2 bars is the last
\* row, its day_change_pct is (latest - previous) / previous x 100 and its
\* week_change_pct is (latest - base) / base x 100, both rounded to two
\* decimals, where base is the close at index -6 when n >= 6 and the oldest
\* close otherwise.
C14_Changes ==
    job = "watch" /\ fetches # <<>> =>
        LET c == hist.closes
            n == Len(c)
        IN  /\ n < 2 => LastTickerRows = {}
            /\ n >= 2 =>
                 /\ LastTickerRows = (IF info = "raise" THEN {} ELSE {Len(market_data)})
                 /\ \A k \in LastTickerRows :
                      LET base == IF n >= 6 THEN c[n - 5] ELSE c[1]
                      IN  /\ market_data[k].price = c[n] * 100
                          /\ IsRounded(market_data[k].day_change_pct, c[n] - c[n - 1], c[n - 1])
                          /\ IsRounded(market_data[k].week_change_pct, c[n] - base, base)

\* the second ticker had seven bars whose oldest close differs from the close
\* at index -6, and both tickers have a row
C14_Witness ==
    /\ job = "watch" /\ pc = "done"
    /\ Len(market_data) = 2
    /\ Len(hist.closes) = 7
    /\ hist.closes[1] # hist.closes[2]
    /\ market_data[2].week_change_pct # 0
    /\ market_data[2].day_change_pct < 0

QuoteDone == job = "quote" /\ pc = "done"

\* the answer is a quote: an object for get_crypto_quote, a non-empty array
\* of bars for get_tiingo_price
IsQuote ==
    IF fetches = <<"get_crypto_quote">>
    THEN answer.shape = "dict" /\ DOMAIN answer.body # {}
    ELSE answer.shape = "list" /\ answer.body # <<>>

\* the current price and the previous close the quote carries, null when absent
QuotePrice ==
    IF fetches = <<"get_crypto_quote">>
    THEN Get(answer.body, "c", Null)
    ELSE Get(answer.body[Len(answer.body)], "close", Null)

QuotePrevClose ==
    IF fetches = <<"get_crypto_quote">>
    THEN Get(answer.body, "pc", Null)
    ELSE IF Len(answer.body) > 1
         THEN Get(answer.body[Len(answer.body) - 1], "close", Null)
         ELSE Null

\* C15: get_crypto_quote and get_tiingo_price given a quote return a record
\* and do not raise; its pct_change is absent when the previous close is
\* absent, and is a number exactly when the current price is a number and
\* the previous close is a number other than zero.
C15_Guard ==
    QuoteDone /\ IsQuote =>
        /\ quote_result.kind = "record"
        /\ QuotePrevClose = Null => quote_result.value.pct_change = Null
        /\ quote_result.value.pct_change.t \in {"null", "num"}
        /\ (quote_result.value.pct_change.t = "num") <=>
             /\ QuotePrice.t = "num"
             /\ QuotePrevClose.t = "num"
             /\ QuotePrevClose.v # 0

\* a crypto quote with a current price and no previous close gave a record
\* whose pct_change is absent
C15_Witness ==
    /\ QuoteDone
    /\ fetches = <<"get_crypto_quote">>
    /\ answer.shape = "dict"
    /\ DOMAIN answer.body = {"c"}
    /\ answer.body["c"] = Num(100)
    /\ quote_result.kind = "record"
    /\ quote_result.value.pct_change = Null

\* the symbols of a list of snapshot entries
SymbolsOf(entries) == [k \in 1..Len(entries) |-> entries[k].symbol]

\* every provider call of a complete run, in order
AllCalls ==
    LET equity(k) == << Call("get_tiingo_price", EquityPlan[k].symbol),
                        Call("get_alpha_rsi", EquityPlan[k].symbol),
                        Call("get_finnhub_news", EquityPlan[k].symbol) >>
        RECURSIVE from(_)
        from(k) == IF k > Len(EquityPlan) THEN <<>> ELSE equity(k) \o from(k + 1)
    IN  from(1)
        \o [k \in 1..Len(MARKET_UNIVERSE.FX) |-> Call("get_fx_rate", MARKET_UNIVERSE.FX[k])]
        \o [k \in 1..Len(MARKET_UNIVERSE.Crypto) |->
               Call("get_crypto_quote", MARKET_UNIVERSE.Crypto[k])]

\* C11 as stated: whatever the providers answer, build_market_snapshot does
\* not raise, and when it has ended every provider call has been made and
\* the snapshot holds one entry per configured symbol, in configured order.
C11_AsStated ==
    job = "snapshot" =>
        /\ pc # "failed"
        /\ pc = "done" =>
             /\ calls = AllCalls
             /\ SymbolsOf(snapshot.indices) = MARKET_UNIVERSE.Indices
             /\ SymbolsOf(snapshot.sectors) = MARKET_UNIVERSE.Sectors
             /\ SymbolsOf(snapshot.ai_infra) = MARKET_UNIVERSE.AIInfra
             /\ Len(snapshot.fx) = Len(MARKET_UNIVERSE.FX)
             /\ Len(snapshot.crypto) = Len(MARKET_UNIVERSE.Crypto)

=============================================================================
